---- MODULE Spec2Model ----
(***************************************************************************)
(* A model of the Shopify import pipeline: the two interchangeable         *)
(* processors (processor.py, processor_no_weight.py), the description      *)
(* synthesiser (description.py) and the helpers they share.                *)
(*                                                                         *)
(* Text is a sequence of chunks.  Everything the code inspects character   *)
(* by character (table cells, model names, handles) is split into chunks   *)
(* of one character; fixed boilerplate is one chunk per literal.           *)
(* Python values are tagged records: [str |-> text], [int |-> n],          *)
(* [flt |-> n], [nan |-> TRUE], [none |-> TRUE], [obj |-> name].           *)
(* Floats are the integer-valued floats the inputs of the model produce.   *)
(***************************************************************************)
EXTENDS Integers, Sequences, FiniteSets, TLC

VARIABLES
    module,      \* which processor cli.py imported
    mode,        \* "full" or "description-only"
    headers,     \* df.columns, in table order
    table,       \* the rows of df, each a sequence of cells aligned with headers
    config,      \* the configuration dictionary
    pc,          \* position of process_file / fuzzy_match_columns
    column_map,  \* fuzzy_match_columns' result
    groups,      \* the keys df.groupby iterates, in its order
    gi,          \* index of the group being processed
    valid_rows,  \* the current group's valid row positions
    vi,          \* index into valid_rows of the row being processed
    rows,        \* the records built so far
    src,         \* for each record of rows: the table row, the group and enumerate's i
    errors,      \* the error list
    exc,         \* the exception that left the function, if any
    out_file,    \* what the run wrote: the exports directory, the output table, the error log
    ev           \* one safe_eval call: its arguments and its outcome

vars == <<module, mode, headers, table, config, pc, column_map, groups, gi,
          valid_rows, vi, rows, src, errors, exc, out_file, ev>>

-----------------------------------------------------------------------------
(* Text and values *)

Range(s) == {s[i] : i \in 1..Len(s)}

RECURSIVE Flatten(_)
Flatten(ss) == IF ss = <<>> THEN <<>> ELSE Head(ss) \o Flatten(Tail(ss))

VStr(t) == [str |-> t]
VInt(n) == [int |-> n]
VFlt(n) == [flt |-> n]
VNan == [nan |-> TRUE]
VNone == [none |-> TRUE]
VObj(name) == [obj |-> name]

IsStr(v) == DOMAIN v = {"str"}
IsInt(v) == DOMAIN v = {"int"}
IsFlt(v) == DOMAIN v = {"flt"}
IsNan(v) == DOMAIN v = {"nan"}
IsNum(v) == IsInt(v) \/ IsFlt(v) \/ IsNan(v)
NumOf(v) == IF IsInt(v) THEN v.int ELSE v.flt

EmptyStr == VStr(<<>>)

\* str(v), as an f-string or str() renders a value
PyStr(v) ==
    IF IsStr(v) THEN v.str
    ELSE IF IsInt(v) THEN <<ToString(v.int)>>
    ELSE IF IsFlt(v) THEN <<ToString(v.flt) \o ".0">>
    ELSE IF IsNan(v) THEN <<"n", "a", "n">>
    ELSE IF DOMAIN v = {"none"} THEN <<"None">>
    ELSE <<"<" \o v.obj \o ">">>

Whitespace == {" ", "\t", "\n"}

RECURSIVE LStrip(_)
LStrip(t) == IF t # <<>> /\ Head(t) \in Whitespace THEN LStrip(Tail(t)) ELSE t

RECURSIVE RStrip(_)
RStrip(t) ==
    IF t # <<>> /\ t[Len(t)] \in Whitespace THEN RStrip(SubSeq(t, 1, Len(t) - 1)) ELSE t

\* str.strip()
Strip(t) == RStrip(LStrip(t))

LowerOf ==
    [c \in {"A", "B", "C", "D", "E", "F", "G", "H", "I", "J", "K", "L", "M", "N", "O",
            "P", "Q", "R", "S", "T", "U", "V", "W", "X", "Y", "Z"} |->
        CASE c = "A" -> "a" [] c = "B" -> "b" [] c = "C" -> "c" [] c = "D" -> "d"
          [] c = "E" -> "e" [] c = "F" -> "f" [] c = "G" -> "g" [] c = "H" -> "h"
          [] c = "I" -> "i" [] c = "J" -> "j" [] c = "K" -> "k" [] c = "L" -> "l"
          [] c = "M" -> "m" [] c = "N" -> "n" [] c = "O" -> "o" [] c = "P" -> "p"
          [] c = "Q" -> "q" [] c = "R" -> "r" [] c = "S" -> "s" [] c = "T" -> "t"
          [] c = "U" -> "u" [] c = "V" -> "v" [] c = "W" -> "w" [] c = "X" -> "x"
          [] c = "Y" -> "y" [] c = "Z" -> "z"]

\* str.lower() and str.upper()
Lower(t) == [i \in 1..Len(t) |-> IF t[i] \in DOMAIN LowerOf THEN LowerOf[t[i]] ELSE t[i]]
Upper(t) ==
    [i \in 1..Len(t) |->
        IF \E c \in DOMAIN LowerOf : LowerOf[c] = t[i]
        THEN CHOOSE c \in DOMAIN LowerOf : LowerOf[c] = t[i]
        ELSE t[i]]

\* str.replace(old, new) for a one-character old; new is a text (empty to delete)
Replace(t, old, new) == Flatten([i \in 1..Len(t) |-> IF t[i] = old THEN new ELSE <<t[i]>>])

DigitOf ==
    [c \in {"0", "1", "2", "3", "4", "5", "6", "7", "8", "9"} |->
        CASE c = "0" -> 0 [] c = "1" -> 1 [] c = "2" -> 2 [] c = "3" -> 3 [] c = "4" -> 4
          [] c = "5" -> 5 [] c = "6" -> 6 [] c = "7" -> 7 [] c = "8" -> 8 [] c = "9" -> 9]

RECURSIVE DigitsValue(_)
DigitsValue(t) ==
    IF t = <<>> THEN 0 ELSE 10 * DigitsValue(SubSeq(t, 1, Len(t) - 1)) + DigitOf[t[Len(t)]]

\* float(text): [ok |-> TRUE, val |-> value] or [ok |-> FALSE] for a ValueError.
\* The texts of the model are digit strings, "nan", and texts float() rejects.
PyFloat(t) ==
    LET s == Strip(t)
    IN  IF s # <<>> /\ \A i \in 1..Len(s) : s[i] \in DOMAIN DigitOf
        THEN [ok |-> TRUE, val |-> VFlt(DigitsValue(s))]
        ELSE IF Lower(s) = <<"n", "a", "n">> THEN [ok |-> TRUE, val |-> VNan]
        ELSE [ok |-> FALSE]

\* A blank cell of the table: pandas' NaN.
NaNCell == <<"<NaN>">>
IsNa(c) == c = NaNCell
\* str(cell)
CellStr(c) == IF IsNa(c) THEN <<"n", "a", "n">> ELSE c

-----------------------------------------------------------------------------
(* Formulas: what ast.parse returns for a formula text, and safe_eval.       *)
(* A node lists its children in the order ast.iter_child_nodes yields them,  *)
(* the operator and context nodes (ast.Mult, ast.Load) among them.           *)

Leaf(cls) == [node |-> cls, lit |-> "", id |-> "", num |-> 0, kids |-> <<>>]
Node(cls, kids) == [node |-> cls, lit |-> "", id |-> "", num |-> 0, kids |-> kids]
Name(x) == [node |-> "Name", lit |-> "", id |-> x, num |-> 0, kids |-> <<Leaf("Load")>>]
NumC(n) == [node |-> "Constant", lit |-> "int", id |-> "", num |-> n, kids |-> <<>>]
StrC(s) == [node |-> "Constant", lit |-> "str", id |-> s, num |-> 0, kids |-> <<>>]
BinOp(l, op, r) == Node("BinOp", <<l, Leaf(op), r>>)
UnaryOp(op, x) == Node("UnaryOp", <<Leaf(op), x>>)
Call(f, args) == Node("Call", <<f>> \o args)
Attribute(v, attr) ==
    [node |-> "Attribute", lit |-> "", id |-> attr, num |-> 0, kids |-> <<v, Leaf("Load")>>]
Subscript(v, idx) == Node("Subscript", <<v, idx, Leaf("Load")>>)
Compare(l, op, r) == Node("Compare", <<l, Leaf(op), r>>)
IfExp(test, body, orelse) == Node("IfExp", <<test, body, orelse>>)
Lambda(body) == Node("Lambda", <<Leaf("arguments"), body>>)
NamedExpr(x, v) ==
    Node("NamedExpr",
         <<[node |-> "Name", lit |-> "", id |-> x, num |-> 0, kids |-> <<Leaf("Store")>>], v>>)
FormattedValue(v) == Node("FormattedValue", <<v>>)
JoinedStr(values) == Node("JoinedStr", values)
Expression(body) == Node("Expression", <<body>>)

\* A formula as configured: its text and what ast.parse(text, mode='eval') does
\* with it ("ok" and the tree, or the exception it raises).
Formula(text, tree) == [text |-> text, parse |-> "ok", tree |-> Expression(tree)]
BadFormula(text, error) == [text |-> text, parse |-> error, tree |-> Leaf("")]
\* config.get(key) of a key that is not configured
NoFormula == BadFormula("None", "TypeError")

\* ast.walk: breadth first
RECURSIVE Walk(_)
Walk(queue) ==
    IF queue = <<>> THEN <<>>
    ELSE <<Head(queue)>> \o Walk(Tail(queue) \o Head(queue).kids)

\* isinstance(node, allowed): ast.Num is the class of the numeric constants
IsInstance(n, allowed) ==
    \/ n.node \in allowed
    \/ n.node = "Constant" /\ n.lit \in {"int", "float"} /\ "Num" \in allowed

Builtins == {"round", "__import__", "open", "eval", "exec"}

Ok(v) == [ok |-> TRUE, val |-> v]
Err(kind, text) == [ok |-> FALSE, kind |-> kind, err |-> text]

\* The first failure of a sequence of results, if any
FirstErr(rs) == rs[CHOOSE i \in 1..Len(rs) : ~rs[i].ok /\ \A j \in 1..(i - 1) : rs[j].ok]
AllOk(rs) == \A i \in 1..Len(rs) : rs[i].ok

RECURSIVE Power(_, _)
Power(a, b) == IF b <= 0 THEN 1 ELSE a * Power(a, b - 1)

Arith(op, l, r) ==
    IF IsStr(l) /\ IsStr(r) /\ op = "Add" THEN Ok(VStr(l.str \o r.str))
    ELSE IF ~(IsNum(l) /\ IsNum(r)) THEN Err("TypeError", "unsupported operand type(s)")
    ELSE IF op = "Div" /\ ~IsNan(r) /\ NumOf(r) = 0
         THEN Err("ZeroDivisionError", "division by zero")
    ELSE IF IsNan(l) \/ IsNan(r) THEN Ok(VNan)
    ELSE LET a == NumOf(l)
             b == NumOf(r)
             n == CASE op = "Add" -> a + b
                    [] op = "Sub" -> a - b
                    [] op = "Mult" -> a * b
                    [] op = "Div" -> a \div b
                    [] op = "Pow" -> Power(a, b)
                    [] OTHER -> 0
         IN  IF IsInt(l) /\ IsInt(r) /\ op # "Div" THEN Ok(VInt(n)) ELSE Ok(VFlt(n))

\* A call of a builtin, which is what a Name outside the context evaluates to
CallBuiltin(f, args) ==
    IF f = "round"
    THEN IF Len(args) \notin {1, 2} \/ ~IsNum(args[1])
         THEN Err("TypeError", "type doesn't define __round__ method")
         ELSE IF Len(args) = 2 THEN Ok(args[1])
         ELSE IF IsNan(args[1])
              THEN Err("ValueError", "cannot convert float NaN to integer")
         ELSE Ok(VInt(NumOf(args[1])))
    ELSE Ok(VObj(f \o "() was called"))

\* eval(compile(tree, "<string>", "eval"), {}, context)
RECURSIVE Eval(_, _)
Eval(n, context) ==
    LET sub == [i \in 1..Len(n.kids) |-> Eval(n.kids[i], context)]
    IN  CASE n.node = "Expression" -> sub[1]
          [] n.node = "Constant" ->
                IF n.lit = "str" THEN Ok(VStr(IF n.id = "" THEN <<>> ELSE <<n.id>>))
                ELSE IF n.lit = "float" THEN Ok(VFlt(n.num)) ELSE Ok(VInt(n.num))
          [] n.node = "Name" ->
                IF n.id \in DOMAIN context THEN Ok(context[n.id])
                ELSE IF n.id \in Builtins THEN Ok(VObj("builtin " \o n.id))
                ELSE Err("NameError", "name '" \o n.id \o "' is not defined")
          [] n.node = "BinOp" ->
                IF ~sub[1].ok THEN sub[1]
                ELSE IF ~sub[3].ok THEN sub[3]
                ELSE Arith(n.kids[2].node, sub[1].val, sub[3].val)
          [] n.node = "UnaryOp" ->
                IF ~sub[2].ok THEN sub[2]
                ELSE IF n.kids[1].node = "USub" /\ IsNum(sub[2].val)
                     THEN IF IsNan(sub[2].val) THEN Ok(VNan)
                          ELSE IF IsInt(sub[2].val) THEN Ok(VInt(0 - sub[2].val.int))
                          ELSE Ok(VFlt(0 - sub[2].val.flt))
                ELSE Err("TypeError", "bad operand type for unary operator")
          [] n.node = "Call" ->
                IF ~AllOk(sub) THEN FirstErr(sub)
                ELSE IF DOMAIN sub[1].val = {"obj"} /\ n.kids[1].node = "Name"
                        /\ n.kids[1].id \in Builtins /\ n.kids[1].id \notin DOMAIN context
                     THEN CallBuiltin(n.kids[1].id,
                                      [i \in 1..(Len(sub) - 1) |-> sub[i + 1].val])
                ELSE Err("TypeError", "object is not callable")
          [] n.node = "FormattedValue" ->
                IF ~sub[1].ok THEN sub[1] ELSE Ok(VStr(PyStr(sub[1].val)))
          [] n.node = "JoinedStr" ->
                IF ~AllOk(sub) THEN FirstErr(sub)
                ELSE Ok(VStr(Flatten([i \in 1..Len(sub) |-> PyStr(sub[i].val)])))
          [] n.node \in {"Load", "Store", "arguments", ""} -> Ok(VNone)
          \* Constructs no safe_eval lets through: what they would compute is
          \* of no interest, only that they ran.
          [] OTHER -> IF ~AllOk(sub) THEN FirstErr(sub) ELSE Ok(VObj(n.node \o " was evaluated"))

\* The node classes each safe_eval allows
ProcessorAllowed ==
    {"Expression", "BinOp", "Num", "Name", "Load", "UnaryOp",
     "Add", "Sub", "Mult", "Div", "Pow", "USub"}
NoWeightAllowed == ProcessorAllowed \cup {"Call", "FormattedValue", "JoinedStr", "Constant"}
DescriptionAllowed == ProcessorAllowed \cup {"Call", "FormattedValue", "JoinedStr", "Constant"}

\* What eval() returned or raised, as TryEval reports it
Evaluated(r) ==
    IF r.ok THEN [evaluated |-> TRUE, ok |-> TRUE, val |-> r.val, err |-> <<>>]
    ELSE [evaluated |-> TRUE, ok |-> FALSE, val |-> VNone, err |-> <<r.err>>]

\* The body of the three safe_eval functions up to the except clause:
\* [evaluated |-> whether eval() ran, ok, val | err]
TryEval(expr, context, allowed, namesBlocked) ==
    IF expr.parse # "ok"
    THEN [evaluated |-> FALSE, ok |-> FALSE, val |-> VNone,
          err |-> <<expr.parse, ": cannot parse ", expr.text>>]
    ELSE LET nodes == Walk(<<expr.tree>>)
             bad == {i \in 1..Len(nodes) : ~IsInstance(nodes[i], allowed)}
         IN  IF bad # {}
             THEN [evaluated |-> FALSE, ok |-> FALSE, val |-> VNone,
                   err |-> IF namesBlocked
                           THEN <<"Unsafe expression: ", expr.text, " [blocked ",
                                  nodes[CHOOSE i \in bad : \A j \in bad : i <= j].node, "]">>
                           ELSE <<"Unsafe expression">>]
             ELSE Evaluated(Eval(expr.tree, context))

\* What a safe_eval call comes to:
\* [evaluated, raised, val (the value returned), err (the exception's text)]
Raised(t) == [evaluated |-> t.evaluated, raised |-> TRUE, val |-> VNone,
              err |-> <<"Invalid formula: ">> \o t.err]
Returned(t, v) == [evaluated |-> t.evaluated, raised |-> FALSE, val |-> v, err |-> <<>>]

\* except Exception as e: raise ValueError(f"Invalid formula: {e}")
Strict(t) == IF t.ok THEN Returned(t, t.val) ELSE Raised(t)
\* except Exception as e: return f"[Description Error: {e} in: {expr}]"
Lenient(t, expr) ==
    IF t.ok THEN Returned(t, t.val)
    ELSE Returned(t, VStr(<<"[Description Error: ">> \o t.err \o <<" in: ", expr.text, "]">>))

\* processor.py: strict, no calls, no string constants
processor_safe_eval(expr, context) == Strict(TryEval(expr, context, ProcessorAllowed, FALSE))

\* processor_no_weight.py: strict
no_weight_safe_eval(expr, context) == Strict(TryEval(expr, context, NoWeightAllowed, TRUE))

\* description.py: lenient, the failure becomes the value
description_safe_eval(expr, context) ==
    Lenient(TryEval(expr, context, DescriptionAllowed, TRUE), expr)

safe_eval(impl, expr, context) ==
    CASE impl = "processor" -> processor_safe_eval(expr, context)
      [] impl = "processor_no_weight" -> no_weight_safe_eval(expr, context)
      [] impl = "description" -> description_safe_eval(expr, context)

-----------------------------------------------------------------------------
(* Column resolution: fuzzy_match_columns (the same in both processors) *)

FUZZY_THRESHOLD == 70

\* DEFAULT_MAP, in the dictionary's order
DEFAULT_MAP ==
    << [key |-> "Model", aliases |-> <<"Model">>],
       [key |-> "Voltage", aliases |-> <<"Voltage">>],
       [key |-> "Power", aliases |-> <<"Power HP", "Individual Pump Power (HP)">>],
       [key |-> "Weight", aliases |-> <<"Weight lbs">>],
       [key |-> "List Price", aliases |-> <<"List Price">>],
       [key |-> "Article Number", aliases |-> <<"Article Number", "Part Number">>] >>

Keys == {DEFAULT_MAP[k].key : k \in 1..Len(DEFAULT_MAP)}
AliasesOf(key) == (CHOOSE e \in Range(DEFAULT_MAP) : e.key = key).aliases

\* The header names the model draws tables from
HeaderNames ==
    {"Model", "Model Number", "Voltage", "Power HP", "Weight lbs", "List Price",
     "Article Number", "Part Number"}

AliasNames ==
    <<"Model", "Voltage", "Power HP", "Individual Pump Power (HP)", "Weight lbs",
      "List Price", "Article Number", "Part Number">>

\* fuzz.token_set_ratio(col.lower(), alias.lower()) on HeaderNames x AliasNames:
\* the library's values (on difflib; with python-Levenshtein a few of the low
\* ones differ, none across the threshold), one row per header, one column per
\* alias of AliasNames.  A name whose tokens are among the other's scores 100.
ScoresOf(h) ==
    CASE h = "Model" -> <<100, 33, 31, 7, 13, 13, 21, 25>>
      [] h = "Model Number" -> <<100, 21, 30, 28, 9, 9, 67, 71>>
      [] h = "Voltage" -> <<33, 100, 27, 19, 24, 35, 19, 11>>
      [] h = "Power HP" -> <<31, 27, 100, 100, 33, 33, 27, 32>>
      [] h = "Weight lbs" -> <<13, 24, 33, 24, 100, 40, 25, 29>>
      [] h = "List Price" -> <<13, 35, 33, 24, 30, 100, 33, 29>>
      [] h = "Article Number" -> <<11, 19, 27, 26, 8, 33, 100, 80>>
      [] h = "Part Number" -> <<25, 11, 21, 34, 29, 29, 80, 100>>

token_set_ratio(col, alias) ==
    ScoresOf(col)[CHOOSE a \in 1..Len(AliasNames) : AliasNames[a] = alias]

\* The inner loop: the first column, in table order, that scores at least the
\* threshold against the alias (0 when there is none)
FirstMatch(alias, columns) ==
    LET hits == {i \in 1..Len(columns) : token_set_ratio(columns[i], alias) >= FUZZY_THRESHOLD}
    IN  IF hits = {} THEN 0 ELSE CHOOSE i \in hits : \A j \in hits : i <= j

\* The middle loop: the first alias, in the configured order, that has a match
MatchedAlias(aliases, columns) ==
    LET hits == {a \in 1..Len(aliases) : FirstMatch(aliases[a], columns) # 0}
    IN  IF hits = {} THEN 0 ELSE CHOOSE a \in hits : \A b \in hits : a <= b

NoExc == [type |-> "", text |-> <<>>]

\* fuzzy_match_columns without its test of missing: what it found is returned
fuzzy_match_columns_unchecked(columns) ==
    LET found == {k \in 1..Len(DEFAULT_MAP) : MatchedAlias(DEFAULT_MAP[k].aliases, columns) # 0}
    IN  [mapping |->
            [key \in {DEFAULT_MAP[k].key : k \in found} |->
                columns[FirstMatch(AliasesOf(key)[MatchedAlias(AliasesOf(key), columns)],
                                   columns)]],
         exc |-> NoExc]

\* fuzzy_match_columns(df): [mapping, exc]; exc is NoExc when it returns
fuzzy_match_columns(columns) ==
    LET found == {k \in 1..Len(DEFAULT_MAP) : MatchedAlias(DEFAULT_MAP[k].aliases, columns) # 0}
        mapping ==
            [key \in {DEFAULT_MAP[k].key : k \in found} |->
                LET aliases == AliasesOf(key)
                IN  columns[FirstMatch(aliases[MatchedAlias(aliases, columns)], columns)]]
        missingAt == SelectSeq([k \in 1..Len(DEFAULT_MAP) |-> k], LAMBDA k : k \notin found)
        missing == [i \in 1..Len(missingAt) |-> DEFAULT_MAP[missingAt[i]].key]
    IN  IF missing # <<>>
        THEN [mapping |-> <<>>,
              exc |-> [type |-> "Exception",
                       text |-> <<"Missing required columns: ">> \o missing]]
        ELSE [mapping |-> mapping, exc |-> NoExc]

-----------------------------------------------------------------------------
(* The table, the grouping and the validity filter of process_file *)

\* df.rename(columns=column_map): a column whose name is a key of the map
\* takes the mapped name
Renamed(columns, cmap) ==
    [i \in 1..Len(columns) |->
        IF columns[i] \in DOMAIN cmap THEN cmap[columns[i]] ELSE columns[i]]

HasColumn(columns, name) == \E i \in 1..Len(columns) : columns[i] = name
ColumnIndex(columns, name) == CHOOSE i \in 1..Len(columns) : columns[i] = name

\* row[name]
Cell(row, columns, name) == row[ColumnIndex(columns, name)]
\* row.get(name, default)
CellGet(row, columns, name, default) ==
    IF HasColumn(columns, name) THEN Cell(row, columns, name) ELSE default

\* The characters of the model's texts, in code point order
CharOrder ==
    <<"\t", "\n", " ", "(", ")", "-", ".", "/",
      "0", "1", "2", "3", "4", "5", "6", "7", "8", "9",
      "A", "B", "C", "D", "E", "F", "G", "H", "I", "J", "K", "L", "M", "N", "O",
      "P", "Q", "R", "S", "T", "U", "V", "W", "X", "Y", "Z",
      "a", "b", "c", "d", "e", "f", "g", "h", "i", "j", "k", "l", "m", "n", "o",
      "p", "q", "r", "s", "t", "u", "v", "w", "x", "y", "z", "<em dash>">>
CodePoint(c) == CHOOSE i \in 1..Len(CharOrder) : CharOrder[i] = c

\* a < b for two strings, as Python compares them
RECURSIVE TextLess(_, _)
TextLess(a, b) ==
    IF b = <<>> THEN FALSE
    ELSE IF a = <<>> THEN TRUE
    ELSE IF Head(a) = Head(b) THEN TextLess(Tail(a), Tail(b))
    ELSE CodePoint(Head(a)) < CodePoint(Head(b))

RECURSIVE SortTexts(_)
SortTexts(S) ==
    IF S = {} THEN <<>>
    ELSE LET least == CHOOSE a \in S : \A b \in S \ {a} : TextLess(a, b)
         IN  <<least>> \o SortTexts(S \ {least})

\* df.groupby(column): the distinct keys in sorted order; a blank key has no group
GroupKeys(rws, columns, column) ==
    SortTexts({Cell(rws[i], columns, column) : i \in 1..Len(rws)} \ {NaNCell})

\* The rows of one group, in the table's order
GroupRows(rws, columns, column, key) ==
    SelectSeq([i \in 1..Len(rws) |-> i], LAMBDA i : Cell(rws[i], columns, column) = key)

\* The em dash (U+2014), one character
EmDash == "<em dash>"

\* The list the filters test against: the em dash, '-', '', 'N/A', 'CF'
Placeholders == {<<EmDash>>, <<"-">>, <<>>, <<"N", "/", "A">>, <<"C", "F">>}

\* processor.py's test of one row of a group: weight and part number
ProcessorRowValid(row, columns, cmap) ==
    LET weight_raw == Strip(CellStr(Cell(row, columns, cmap["Weight"])))
        part_number == Strip(CellStr(Cell(row, columns, cmap["Article Number"])))
    IN  ~(weight_raw \in Placeholders \/ part_number \in Placeholders)

\* bool(x) of a float
Truthy(v) == IF IsNan(v) THEN TRUE ELSE NumOf(v) # 0

\* processor_no_weight.py's test: part number and a price that is a non-zero number
NoWeightRowValid(row, columns, cmap) ==
    LET part_number == Strip(CellStr(Cell(row, columns, cmap["Article Number"])))
        price_raw == Strip(CellStr(Cell(row, columns, cmap["List Price"])))
        list_price == IF price_raw \in Placeholders THEN VFlt(0)
                      ELSE IF PyFloat(price_raw).ok THEN PyFloat(price_raw).val
                      ELSE VFlt(0)
    IN  ~(part_number \in Placeholders \/ ~Truthy(list_price))

\* The filter left out: every row of a group is a valid row
RowValidAlways(impl, row, columns, cmap) == TRUE

RowValid(impl, row, columns, cmap) ==
    IF impl = "processor" THEN ProcessorRowValid(row, columns, cmap)
    ELSE NoWeightRowValid(row, columns, cmap)

\* valid_rows of a group: positions within the group, as range(len(group)) counts
ValidRows(impl, rws, columns, cmap, members) ==
    SelectSeq(members, LAMBDA r : RowValid(impl, rws[r], columns, cmap))

\* sanitize_handle without its strip()
sanitize_handle_untrimmed(name) ==
    Replace(Replace(Replace(Replace(Lower(name), " ", <<"-">>), "/", <<"-">>),
                    "(", <<>>), ")", <<>>)

sanitize_handle(name) ==
    Replace(Replace(Replace(Replace(Lower(Strip(name)), " ", <<"-">>), "/", <<"-">>),
                    "(", <<>>), ")", <<>>)

-----------------------------------------------------------------------------
(* Building one record: the body of process_file's inner loop *)

\* A dictionary from a sequence of <<key, value>> pairs
Dict(pairs) ==
    [k \in {pairs[i][1] : i \in 1..Len(pairs)} |->
        pairs[CHOOSE i \in 1..Len(pairs) : pairs[i][1] = k][2]]
\* d[k] = v
Put(d, k, v) == [x \in DOMAIN d \cup {k} |-> IF x = k THEN v ELSE d[x]]

\* What one pass of the inner loop comes to
Appended(record) == [kind |-> "append", record |-> record, exc |-> NoExc]
Skipped == [kind |-> "skip", record |-> <<>>, exc |-> NoExc]
Raises(type, text) == [kind |-> "raise", record |-> <<>>, exc |-> [type |-> type, text |-> text]]

\* x > n for a float x (False for nan)
Gt(v, n) == ~IsNan(v) /\ NumOf(v) > n

\* list_price = float(row[col_price]) if pd.notna(...) and str(...).strip() else 0.0,
\* and 0.0 when float() raises
ListPrice(row, columns, cmap) ==
    LET c == Cell(row, columns, cmap["List Price"])
    IN  IF ~IsNa(c) /\ Strip(CellStr(c)) # <<>> /\ PyFloat(c).ok THEN PyFloat(c).val
        ELSE VFlt(0)

ShippingNote ==
    "<p><em>NOTE: We will contact you during order fulfilment to discuss shipping and handling costs for products weighing more than 150 pounds. These costs will be billed separately.</em></p>"

\* processor.py build_description; float(row[col_weight]) may raise
build_description(row, cfg, columns, cmap) ==
    LET w == PyFloat(CellStr(Cell(row, columns, cmap["Weight"])))
        desc ==
            <<"<p><strong>Model:</strong> ">> \o CellStr(Cell(row, columns, cmap["Model"]))
            \o <<"<br>", "<strong>Voltage:</strong> ">>
            \o CellStr(Cell(row, columns, cmap["Voltage"]))
            \o <<"<br>", "<strong>Power:</strong> ">>
            \o CellStr(Cell(row, columns, cmap["Power"]))
            \o <<" HP<br>", "<strong>Weight:</strong> ">>
            \o CellStr(Cell(row, columns, cmap["Weight"]))
            \o <<" lbs</p>">>
    IN  IF ~w.ok THEN [ok |-> FALSE, text |-> <<>>]
        ELSE [ok |-> TRUE,
              text |-> desc
                  \o (IF Gt(w.val, cfg.weight_threshold) THEN <<ShippingNote>> ELSE <<>>)
                  \o <<"<p><a href=\"https://wilo.com/en/overview.html\" target=\"_blank\">View on Manufacturer Website</a></p>">>]

\* processor.py, the row dictionary of full mode (lines 142-190)
\* (f holds the loop body's local variables)
ProcessorRowDict(i, md, cfg, f) ==
    LET first(v) == IF i = 0 THEN v ELSE EmptyStr
        handle == f.handle
        title == f.title
        description == f.description
        voltage == f.voltage
        part_number == f.part_number
        grams == f.grams
        price == f.price
        list_price == f.list_price
        cost == f.cost
        requires_shipping == f.requires_shipping
        model == f.model
    IN  Dict(<<
        <<"Handle", VStr(handle)>>,
        <<"Title", first(VStr(title))>>,
        <<"Body (HTML)", IF i = 0 /\ md = "full" THEN VStr(description) ELSE EmptyStr>>,
        <<"Vendor", first(VStr(cfg.vendor))>>,
        <<"Type", first(VStr(cfg.product_type))>>,
        <<"Tags", first(VStr(cfg.vendor \o <<", ">> \o cfg.collection \o <<"-">> \o voltage))>>,
        <<"Published", VStr(<<"FALSE">>)>>,
        <<"Option1 Name", VStr(<<"Voltage">>)>>,
        <<"Option1 Value", VStr(voltage)>>,
        <<"Option2 Name", EmptyStr>>,
        <<"Option2 Value", EmptyStr>>,
        <<"Option3 Name", EmptyStr>>,
        <<"Option3 Value", EmptyStr>>,
        <<"Variant SKU", VStr(part_number)>>,
        <<"Variant Grams", grams>>,
        <<"Variant Inventory Tracker", VStr(<<"shopify">>)>>,
        <<"Variant Inventory Qty", EmptyStr>>,
        <<"Variant Inventory Policy", VStr(<<"deny">>)>>,
        <<"Variant Fulfillment Service", VStr(<<"manual">>)>>,
        <<"Variant Price", price>>,
        <<"Variant Compare At Price", list_price>>,
        <<"Variant Cost", cost>>,
        <<"Variant Requires Shipping", VStr(<<requires_shipping>>)>>,
        <<"Variant Taxable", VStr(<<"TRUE">>)>>,
        <<"Variant Barcode", EmptyStr>>,
        <<"Image Src", first(VStr(cfg.image_url))>>,
        <<"Image Position", first(VInt(1))>>,
        <<"Image Alt Text", IF i > 0 THEN EmptyStr ELSE VStr(title)>>,
        <<"SEO Title",
          first(VStr(cfg.collection \o <<" ">> \o model \o <<" <en dash> ">> \o cfg.vendor \o <<" ">>
                     \o cfg.collection \o <<" Series ">> \o voltage))>>,
        <<"SEO Description",
          first(VStr(cfg.collection \o <<" ">> \o model \o <<" ">> \o description \o <<" ">>
                     \o PyStr(price) \o <<" USD\nBuy ">> \o model
                     \o <<" online. Durable, efficient booster pump system from ">>
                     \o cfg.vendor \o <<".">>))>>,
        <<"Google Shopping / Google Product Category", EmptyStr>>,
        <<"Google Shopping / Gender", EmptyStr>>,
        <<"Google Shopping / Age Group", EmptyStr>>,
        <<"Google Shopping / AdWords Grouping", EmptyStr>>,
        <<"Google Shopping / AdWords Labels", EmptyStr>>,
        <<"Google Shopping / Custom Label 0", EmptyStr>>,
        <<"Google Shopping / Custom Label 1", EmptyStr>>,
        <<"Google Shopping / Custom Label 2", EmptyStr>>,
        <<"Google Shopping / Custom Label 3", EmptyStr>>,
        <<"Google Shopping / Custom Label 4", EmptyStr>>,
        <<"Variant Image", first(VStr(cfg.image_url))>>,
        <<"Variant Weight Unit", VStr(<<"lb">>)>>,
        <<"Variant Tax Code", EmptyStr>>,
        <<"Cost per item", cost>>,
        <<"Price / International", EmptyStr>>,
        <<"Compare At Price / International", EmptyStr>>,
        <<"Status", VStr(<<"draft">>)>> >>)

\* processor.py, one pass of the loop over valid_rows (lines 118-198):
\* i is enumerate's index, model the group key
ProcessorRow(i, model, row, columns, cmap, cfg, md) ==
    LET handle == sanitize_handle(model)
        voltage == Strip(CellStr(Cell(row, columns, cmap["Voltage"])))
        weight_raw == Strip(CellStr(Cell(row, columns, cmap["Weight"])))
        part_number == Strip(CellStr(Cell(row, columns, cmap["Article Number"])))
        list_price == ListPrice(row, columns, cmap)
        title == model \o <<" (">> \o voltage \o <<")">>
        \* lines 129-198, once weight is a number
        outcome(w, price, cost, g, description) ==
            IF price.raised THEN Raises("ValueError", price.err)
            ELSE IF cost.raised THEN Raises("ValueError", cost.err)
            ELSE IF g.raised THEN Raises("ValueError", g.err)
            ELSE IF ~IsNum(g.val)
                 THEN Raises("TypeError", <<"type doesn't define __round__ method">>)
            ELSE IF IsNan(g.val)
                 THEN Raises("ValueError", <<"cannot convert float NaN to integer">>)
            ELSE IF ~description.ok
                 THEN Raises("ValueError", <<"could not convert string to float">>)
            ELSE IF md = "description-only"
                 THEN Appended(Dict(<< <<"Handle", VStr(handle)>>,
                                       <<"Body (HTML)", VStr(description.text)>> >>))
            ELSE Appended(ProcessorRowDict(i, md, cfg,
                     [handle |-> handle, title |-> title, description |-> description.text,
                      voltage |-> voltage, part_number |-> part_number,
                      grams |-> VInt(NumOf(g.val)), price |-> price.val,
                      list_price |-> list_price, cost |-> cost.val,
                      requires_shipping |->
                          IF Gt(w.val, cfg.weight_threshold) THEN "FALSE" ELSE "TRUE",
                      model |-> model]))
        \* lines 124-127: a weight that is no number passes the row over
        weighed(w) ==
            IF ~w.ok THEN Skipped
            ELSE outcome(w,
                    processor_safe_eval(cfg.pricing_formula, [n \in {"list_price"} |-> list_price]),
                    processor_safe_eval(cfg.cost_formula, [n \in {"list_price"} |-> list_price]),
                    processor_safe_eval(cfg.grams_formula, [n \in {"weight"} |-> w.val]),
                    build_description(row, cfg, columns, cmap))
    IN  weighed(PyFloat(weight_raw))

-----------------------------------------------------------------------------
(* processor_no_weight.py and description.py *)

\* SHOPIFY_HEADERS of processor.py, of processor_no_weight.py (a list) and of
\* description.py (a set of the same names)
ProcessorHeaders ==
    <<"Handle", "Title", "Body (HTML)", "Vendor", "Type", "Tags", "Published",
      "Option1 Name", "Option1 Value", "Option2 Name", "Option2 Value", "Option3 Name",
      "Option3 Value", "Variant SKU", "Variant Grams", "Variant Inventory Tracker",
      "Variant Inventory Qty", "Variant Inventory Policy", "Variant Fulfillment Service",
      "Variant Price", "Variant Compare At Price", "Variant Cost",
      "Variant Requires Shipping", "Variant Taxable", "Variant Barcode", "Image Src",
      "Image Position", "Image Alt Text", "Gift Card", "SEO Title", "SEO Description",
      "Google Shopping / Google Product Category", "Google Shopping / Gender",
      "Google Shopping / Age Group", "Google Shopping / MPN",
      "Google Shopping / AdWords Grouping", "Google Shopping / AdWords Labels",
      "Google Shopping / Condition", "Google Shopping / Custom Product",
      "Google Shopping / Custom Label 0", "Google Shopping / Custom Label 1",
      "Google Shopping / Custom Label 2", "Google Shopping / Custom Label 3",
      "Google Shopping / Custom Label 4", "Variant Image", "Variant Weight Unit",
      "Variant Tax Code", "Cost per item", "Price / International",
      "Compare At Price / International", "Status">>

NoWeightHeaders ==
    <<"Handle", "Title", "Body (HTML)", "Vendor", "Type", "Tags", "Published",
      "Option1 Name", "Option1 Value", "Option2 Name", "Option2 Value", "Option3 Name",
      "Option3 Value", "Variant SKU", "Variant Grams", "Variant Inventory Tracker",
      "Variant Inventory Qty", "Variant Inventory Policy", "Variant Fulfillment Service",
      "Variant Price", "Variant Compare At Price", "Variant Requires Shipping",
      "Variant Taxable", "Variant Barcode", "Product Category", "Image Src",
      "Image Position", "Image Alt Text", "Gift Card", "SEO Title", "SEO Description",
      "Google Shopping / Google Product Category", "Google Shopping / Gender",
      "Google Shopping / Age Group", "Google Shopping / MPN",
      "Google Shopping / AdWords Grouping", "Google Shopping / AdWords Labels",
      "Google Shopping / Condition", "Google Shopping / Custom Product",
      "Google Shopping / Custom Label 0", "Google Shopping / Custom Label 1",
      "Google Shopping / Custom Label 2", "Google Shopping / Custom Label 3",
      "Google Shopping / Custom Label 4", "Variant Image", "Variant Weight Unit",
      "Variant Tax Code", "Cost per item", "Price / International",
      "Compare At Price / International", "Status">>

DescriptionHeaders == Range(NoWeightHeaders)

SHOPIFY_HEADERS(impl) == IF impl = "processor" THEN ProcessorHeaders ELSE NoWeightHeaders

\* The configuration: cfg.keys are the keys the dictionary holds
FormulaKeys ==
    {"pricing_formula", "cost_formula", "grams_formula", "seo_title_formula",
     "seo_description_formula"}
TextKeys == {"vendor", "product_type", "collection", "image_url"}

\* config.get(key) of a formula
ConfigFormula(cfg, key) == IF key \in cfg.keys THEN cfg[key] ELSE NoFormula

\* The configuration's entries as formula variables
ConfigContext(cfg) ==
    [k \in cfg.keys |->
        IF k \in FormulaKeys THEN VStr(<<cfg[k].text>>)
        ELSE IF k \in TextKeys THEN VStr(cfg[k])
        ELSE IF k = "weight_threshold" THEN VFlt(cfg[k])
        ELSE VObj("list")]

\* dict(row): the columns' names and the row's cells
CellVal(c) == IF IsNa(c) THEN VNan ELSE VStr(c)
RowDictOf(row, columns) == [h \in Range(columns) |-> CellVal(Cell(row, columns, h))]

\* k.replace(' ', '_').lower() on the names a context holds
IdentOf(k) ==
    CASE k = "Model" -> "model"
      [] k = "Model Number" -> "model_number"
      [] k = "Voltage" -> "voltage"
      [] k = "Power HP" -> "power_hp"
      [] k = "Weight lbs" -> "weight_lbs"
      [] k = "List Price" -> "list_price"
      [] k = "Article Number" -> "article_number"
      [] k = "Part Number" -> "part_number"
      [] OTHER -> k

\* row.get(key, default), rendered
GetStr(d, key, default) == IF key \in DOMAIN d THEN PyStr(d[key]) ELSE default

SterlcoIntro ==
    "<p>Sterlco(R) atmospherically vented condensate tanks are designed for pumping hot condensate throughout the steam system. [...] Tanks sizes range from 8-714 gallons.</p>"
SterlcoTail ==
    "<li> The Sterlco(R) Centrifugal Pumps are capable of pumping hot condensate up to 200 F. [...]</li><li>Sterl-Seal ceramic pump seal (250F)</li></ul><p><strong>Applications:</strong> [...]</p><p>[links]</p><p><strong>Voltage Selection Guide:</strong></p><ul>[...]</ul><p>Not sure what to choose? [...]</p>"

\* description.py generate_description(row, seo_formula, config): row is the
\* context dictionary process_file built.  [raised, exc, text]
generate_description(row, seo_formula, cfg) ==
    IF "description_include_columns" \notin cfg.keys
    THEN [raised |-> TRUE, text |-> <<>>,
          exc |-> [type |-> "Exception",
                   text |-> <<"Missing 'description_include_columns' in config!">>]]
    ELSE
    LET includes == cfg.description_include_columns
        excludes == DescriptionHeaders
        \* col.replace('_', ' ') changes no name the configurations include
        lead(col) ==
            IF /\ col \in DOMAIN row
               /\ col \notin excludes
               /\ (IsStr(row[col]) \/ IsNum(row[col]))
               /\ ~IsNan(row[col])
               /\ Strip(PyStr(row[col])) # <<>>
            THEN <<"<strong>", col, ": </strong> ">> \o PyStr(row[col]) \o <<"<br>">>
            ELSE <<>>
        weight == IF "Weight" \in DOMAIN row THEN row["Weight"]
                  ELSE IF "Weight lbs" \in DOMAIN row THEN row["Weight lbs"]
                  ELSE VInt(0)
        \* float(str(weight).replace(',', '')), 0 when it raises
        parsed == IF IsInt(weight) THEN [ok |-> TRUE, val |-> weight]
                  ELSE PyFloat(Replace(PyStr(weight), ",", <<>>))
        w == IF parsed.ok THEN parsed.val ELSE VInt(0)
        desc ==
            <<"<p>">> \o Flatten([i \in 1..Len(includes) |-> lead(includes[i])]) \o <<"</p>">>
            \o <<"<p><strong>Part Number: ">> \o GetStr(row, "Article Number", <<>>)
            \o <<"</strong></p>", SterlcoIntro, "<ul>", "<li>Voltage: ">>
            \o GetStr(row, "Voltage", <<>>)
            \o <<"</li>", "<li>Shipping Weight: ">>
            \o GetStr(row, "Weight lbs", GetStr(row, "Weight", <<>>))
            \o <<" lb</li>", "<li>Boiler HP: ">> \o GetStr(row, "Boiler HP", <<>>)
            \o <<"</li>", "<li>Discharge Pressure: ">>
            \o GetStr(row, "Discharge Pressure PSI", <<>>)
            \o <<" PSI</li>", "<li>Pump Capacity: ">> \o GetStr(row, "Pump Cap (GPM)", <<>>)
            \o <<" GPM</li>", "<li>Motor HP: ">> \o GetStr(row, "Motor HP", <<>>)
            \o <<"</li>", "<li>Recirculation Capacity: ">> \o GetStr(row, "Rec Cap (Gal)", <<>>)
            \o <<" Gal</li>", SterlcoTail>>
            \o (IF Gt(w, 150) THEN <<ShippingNote>> ELSE <<>>)
        context ==
            [k \in {"description"} |-> VStr(desc)] @@ ConfigContext(cfg) @@ row
            @@ [k \in {IdentOf(x) : x \in DOMAIN row} |->
                    row[CHOOSE x \in DOMAIN row : IdentOf(x) = k]]
        \* return safe_eval(seo_formula, context).strip()
        stripped(r) ==
            IF ~IsStr(r.val)
            THEN [raised |-> TRUE, text |-> <<>>,
                  exc |-> [type |-> "AttributeError",
                           text |-> <<"object has no attribute 'strip'">>]]
            ELSE [raised |-> FALSE, text |-> Strip(r.val.str), exc |-> NoExc]
    IN  stripped(description_safe_eval(seo_formula, context))

\* ("", "CF", "N/A", the em dash, "-"): the values the option and SKU logic reads as blank
BlankValues == {<<>>, <<"C", "F">>, <<"N", "/", "A">>, <<EmDash>>, <<"-">>}

\* The option logic's view of one cell: pd.isnull(val) or
\* str(val).strip().upper() in (...) makes it ""
OptionValue(row, columns, field) ==
    LET val == CellGet(row, columns, field, <<>>)
    IN  IF IsNa(val) \/ Upper(Strip(CellStr(val))) \in BlankValues THEN <<>> ELSE val

\* config.get("variant_option_fields", ["Power HP", "Voltage"])
OptionFields(cfg) ==
    IF "variant_option_fields" \in cfg.keys THEN cfg.variant_option_fields
    ELSE <<"Power HP", "Voltage">>

OptionValues(row, columns, cfg) ==
    [k \in 1..Len(OptionFields(cfg)) |-> OptionValue(row, columns, OptionFields(cfg)[k])]

\* The skip rule gone wrong: any blank option skips the row
OptionSkipAnyBlank(option_values) ==
    /\ ~(\A k \in 1..Len(option_values) : option_values[k] = <<>>)
    /\ \E k \in 1..Len(option_values) : option_values[k] = <<>>

\* The skip rule (lines 262-269): the first option blank, another one not
OptionSkip(option_values) ==
    /\ ~(\A k \in 1..Len(option_values) : option_values[k] = <<>>)
    /\ option_values[1] = <<>>

\* The option fields as helper.py's get_variant_options fills them: a blank
\* value leaves its name blank too
WithOptionsNamedIfSet(row_dict, option_fields, option_values) ==
    LET name(k) == IF k > Len(option_fields) \/ option_values[k] = <<>> THEN EmptyStr
                   ELSE VStr(<<option_fields[k]>>)
        value(k) == IF k > Len(option_values) THEN EmptyStr ELSE VStr(option_values[k])
    IN  Put(Put(Put(Put(Put(Put(row_dict,
            "Option1 Name", name(1)), "Option1 Value", value(1)),
            "Option2 Name", name(2)), "Option2 Value", value(2)),
            "Option3 Name", name(3)), "Option3 Value", value(3))

\* The option fields written into the record (lines 262-275)
WithOptions(row_dict, option_fields, option_values) ==
    LET all_blank == \A k \in 1..Len(option_values) : option_values[k] = <<>>
        name(k) == IF all_blank \/ k > Len(option_fields) THEN EmptyStr
                   ELSE VStr(<<option_fields[k]>>)
        value(k) == IF all_blank \/ k > Len(option_values) THEN EmptyStr
                    ELSE VStr(option_values[k])
    IN  Put(Put(Put(Put(Put(Put(row_dict,
            "Option1 Name", name(1)), "Option1 Value", value(1)),
            "Option2 Name", name(2)), "Option2 Value", value(2)),
            "Option3 Name", name(3)), "Option3 Value", value(3))

\* generate_shopify_sku's clean(val)
Clean(t) ==
    Upper(Replace(Replace(Replace(Replace(Replace(Replace(t, " ", <<>>), "(", <<>>),
                                          ")", <<>>), "&", <<>>), "/", <<>>), "-", <<>>))

RECURSIVE JoinTexts(_, _)
JoinTexts(sep, parts) ==
    IF parts = <<>> THEN <<>>
    ELSE IF Len(parts) = 1 THEN parts[1]
    ELSE parts[1] \o sep \o JoinTexts(sep, Tail(parts))

\* processor_no_weight.py generate_shopify_sku(row, config)
generate_shopify_sku(row, columns, cfg) ==
    LET part(field) ==
            LET val == CellGet(row, columns, field, <<>>)
            IN  IF ~IsNa(val) /\ Strip(CellStr(val)) # <<>> THEN <<Clean(CellStr(val))>>
                ELSE <<>>
        option(field) ==
            LET val == CellGet(row, columns, field, <<>>)
            IN  IF ~IsNa(val) /\ Upper(Strip(CellStr(val))) \notin BlankValues
                THEN <<Clean(CellStr(val))>> ELSE <<>>
        fields == OptionFields(cfg)
    IN  JoinTexts(<<"-">>,
                  part("Type") \o part("Model")
                  \o Flatten([k \in 1..Len(fields) |-> option(fields[k])]))

\* processor_no_weight.py, the row dictionary of full mode (lines 196-243)
\* (f holds the loop body's local variables)
NoWeightRowDict(i, md, cfg, f) ==
    LET first(v) == IF i = 0 THEN v ELSE EmptyStr
    IN  Dict(<<
        <<"Handle", VStr(f.handle)>>,
        <<"Title", VStr(f.title)>>,
        <<"Body (HTML)", IF md = "full" THEN VStr(f.description) ELSE EmptyStr>>,
        <<"Vendor", VStr(cfg.vendor)>>,
        <<"Type", VStr(cfg.product_type)>>,
        <<"Tags", VStr(cfg.vendor \o <<", ">> \o cfg.collection \o <<"-">> \o f.voltage)>>,
        <<"Published", VStr(<<"FALSE">>)>>,
        <<"Option1 Name", EmptyStr>>,
        <<"Option1 Value", EmptyStr>>,
        <<"Option2 Name", EmptyStr>>,
        <<"Option2 Value", EmptyStr>>,
        <<"Option3 Name", EmptyStr>>,
        <<"Option3 Value", EmptyStr>>,
        <<"Variant SKU", VStr(f.part_number)>>,
        <<"Variant Grams", f.grams>>,
        <<"Variant Inventory Tracker", EmptyStr>>,
        <<"Variant Inventory Qty", EmptyStr>>,
        <<"Variant Inventory Policy", VStr(<<"continue">>)>>,
        <<"Variant Fulfillment Service", VStr(<<"manual">>)>>,
        <<"Variant Price", f.price>>,
        <<"Variant Compare At Price", f.list_price>>,
        <<"Variant Requires Shipping", VStr(<<f.requires_shipping>>)>>,
        <<"Variant Taxable", VStr(<<"TRUE">>)>>,
        <<"Variant Barcode", EmptyStr>>,
        <<"Product Category",
          IF "product_category" \in cfg.keys THEN VStr(cfg.product_category) ELSE EmptyStr>>,
        <<"Image Src", first(VStr(cfg.image_url))>>,
        <<"Image Position", first(VInt(1))>>,
        <<"Image Alt Text", first(VStr(f.title))>>,
        <<"SEO Title", f.seo_title>>,
        <<"SEO Description", f.seo_description>>,
        <<"Google Shopping / Gender", EmptyStr>>,
        <<"Google Shopping / Age Group", EmptyStr>>,
        <<"Google Shopping / AdWords Grouping", EmptyStr>>,
        <<"Google Shopping / AdWords Labels", EmptyStr>>,
        <<"Google Shopping / Custom Label 0", EmptyStr>>,
        <<"Google Shopping / Custom Label 1", EmptyStr>>,
        <<"Google Shopping / Custom Label 2", EmptyStr>>,
        <<"Google Shopping / Custom Label 3", EmptyStr>>,
        <<"Google Shopping / Custom Label 4", EmptyStr>>,
        <<"Variant Image", first(VStr(cfg.image_url))>>,
        <<"Variant Weight Unit", VStr(<<"lb">>)>>,
        <<"Variant Tax Code", EmptyStr>>,
        <<"Cost per item", f.cost>>,
        <<"Price / International", EmptyStr>>,
        <<"Compare At Price / International", EmptyStr>>,
        <<"Status", VStr(<<"draft">>)>> >>)

\* processor_no_weight.py, one pass of the loop over valid_rows (lines 158-284)
NoWeightRow(i, model, row, columns, cmap, cfg, md) ==
    LET handle == sanitize_handle(model)
        voltage == Strip(CellStr(Cell(row, columns, cmap["Voltage"])))
        part_number == Strip(CellStr(Cell(row, columns, cmap["Article Number"])))
        grams == VInt(0)
        list_price == ListPrice(row, columns, cmap)
        title == model
        option_fields == OptionFields(cfg)
        option_values == OptionValues(row, columns, cfg)
        sku == IF part_number \in BlankValues THEN generate_shopify_sku(row, columns, cfg)
               ELSE part_number
        \* row_context (lines 175-184)
        row_context(price, cost, description) ==
            [k \in {"price", "grams", "cost", "title", "model", "voltage", "description"} |->
                CASE k = "price" -> price.val
                  [] k = "grams" -> grams
                  [] k = "cost" -> cost.val
                  [] k = "title" -> VStr(title)
                  [] k = "model" -> VStr(model)
                  [] k = "voltage" -> VStr(voltage)
                  [] k = "description" -> VStr(description)]
            @@ ConfigContext(cfg) @@ RowDictOf(row, columns)
        \* lines 196-284: the record, the option rule, the SKU
        record(price, cost, d, seo_title, seo_description) ==
            LET full == NoWeightRowDict(i, md, cfg,
                            [handle |-> handle, title |-> title, description |-> d.text,
                             voltage |-> voltage, part_number |-> part_number,
                             grams |-> grams, price |-> price.val, list_price |-> list_price,
                             cost |-> cost.val, requires_shipping |-> "FALSE",
                             seo_title |-> seo_title.val,
                             seo_description |-> seo_description.val])
                row_dict == IF md = "description-only"
                            THEN Dict(<< <<"Handle", VStr(handle)>>,
                                         <<"Body (HTML)", VStr(d.text)>> >>)
                            ELSE full
            IN  Put(WithOptions(row_dict, option_fields, option_values),
                    "Variant SKU", VStr(sku))
        outcome(price, cost, d, seo_title, seo_description) ==
            IF price.raised THEN Raises("ValueError", price.err)
            ELSE IF cost.raised THEN Raises("ValueError", cost.err)
            ELSE IF d.raised THEN Raises(d.exc.type, d.exc.text)
            ELSE IF seo_title.raised THEN Raises("ValueError", seo_title.err)
            ELSE IF seo_description.raised THEN Raises("ValueError", seo_description.err)
            ELSE IF OptionSkip(option_values) THEN Skipped
            ELSE Appended(record(price, cost, d, seo_title, seo_description))
        \* lines 190-191: the SEO fields, by the module's own safe_eval
        with_seo(price, cost, d) ==
            outcome(price, cost, d,
                no_weight_safe_eval(ConfigFormula(cfg, "seo_title_formula"),
                                    row_context(price, cost, d.text)),
                no_weight_safe_eval(ConfigFormula(cfg, "seo_description_formula"),
                                    row_context(price, cost, d.text)))
        \* lines 186-187: the description
        with_description(price, cost) ==
            with_seo(price, cost,
                generate_description(row_context(price, cost, <<>>),
                                     ConfigFormula(cfg, "seo_description_formula"), cfg))
    IN  with_description(
            no_weight_safe_eval(cfg.pricing_formula, [n \in {"list_price"} |-> list_price]),
            no_weight_safe_eval(cfg.cost_formula, [n \in {"list_price"} |-> list_price]))

\* One pass of the inner loop of process_file
ProcessRow(impl, i, model, row, columns, cmap, cfg, md) ==
    IF impl = "processor" THEN ProcessorRow(i, model, row, columns, cmap, cfg, md)
    ELSE NoWeightRow(i, model, row, columns, cmap, cfg, md)

-----------------------------------------------------------------------------
(* The inputs the model draws from *)

\* The longest table and the longest header row
MaxRows == 2
MaxHeaders == 6

FV(x) == FormattedValue(Name(x))

\* Formulas free of calls, which both processors accept
F_price == Formula("list_price * 2", BinOp(Name("list_price"), "Mult", NumC(2)))
F_cost == Formula("list_price", Name("list_price"))
F_grams == Formula("weight * 454", BinOp(Name("weight"), "Mult", NumC(454)))
\* A formula that fails on one price only
F_div ==
    Formula("100 / (list_price - 100)",
            BinOp(NumC(100), "Div", BinOp(Name("list_price"), "Sub", NumC(100))))
\* The shape of cli.py's defaults (lines 77-89): calls of round() and f-strings
F_round_price ==
    Formula("round(list_price * 2, 2)",
            Call(Name("round"), <<BinOp(Name("list_price"), "Mult", NumC(2)), NumC(2)>>))
F_round_cost == Formula("round(list_price, 2)", Call(Name("round"), <<Name("list_price"), NumC(2)>>))
F_round_grams ==
    Formula("round(weight * 454)", Call(Name("round"), <<BinOp(Name("weight"), "Mult", NumC(454))>>))
F_seo_title ==
    Formula("f'{collection} {model} <en dash> {vendor} {collection} Series {voltage}'",
            JoinedStr(<<FV("collection"), StrC(" "), FV("model"), StrC(" <en dash> "),
                        FV("vendor"), StrC(" "), FV("collection"), StrC(" Series "),
                        FV("voltage")>>))
F_seo_description ==
    Formula("f'{collection} {model} {description} {price} USD. Buy {model} online from {vendor}.'",
            JoinedStr(<<FV("collection"), StrC(" "), FV("model"), StrC(" "), FV("description"),
                        StrC(" "), FV("price"), StrC(" USD. Buy "), FV("model"),
                        StrC(" online from "), FV("vendor"), StrC(".")>>))
\* An SEO title that names a column the table does not have
F_seo_title_colour ==
    Formula("f'{model} {colour}'", JoinedStr(<<FV("model"), StrC(" "), FV("colour")>>))
\* cli.py's default SEO description: the line break inside the quotes does not parse
F_seo_description_cli ==
    BadFormula("f'{collection} {model} {description} {price} USD[newline]Buy {model} online. [...]'",
               "SyntaxError")

CfgGood ==
    [keys |-> {"pricing_formula", "cost_formula", "grams_formula", "seo_title_formula",
               "seo_description_formula", "weight_threshold", "image_url", "vendor",
               "product_type", "collection", "description_include_columns"},
     pricing_formula |-> F_price, cost_formula |-> F_cost, grams_formula |-> F_grams,
     seo_title_formula |-> F_seo_title, seo_description_formula |-> F_seo_description,
     weight_threshold |-> 150, image_url |-> <<"https://img/p.png">>, vendor |-> <<"Wilo">>,
     product_type |-> <<"Booster Pump Systems">>, collection |-> <<"Helix V">>,
     description_include_columns |-> <<"Voltage", "Power HP">>]

\* The pricing formula fails on a list price of 100
CfgDiv == [CfgGood EXCEPT !.pricing_formula = F_div]

\* No seo_title_formula configured
CfgNoSeoTitle == [CfgGood EXCEPT !.keys = @ \ {"seo_title_formula"}]

\* The SEO title formula fails on every row
CfgBadSeo == [CfgGood EXCEPT !.seo_title_formula = F_seo_title_colour]

\* The dictionary cli.py builds (lines 76-95)
CfgCli ==
    [CfgGood EXCEPT !.keys = @ \ {"description_include_columns"},
                    !.pricing_formula = F_round_price, !.cost_formula = F_round_cost,
                    !.grams_formula = F_round_grams,
                    !.seo_description_formula = F_seo_description_cli]

\* Four option fields configured
CfgOptions ==
    [k \in DOMAIN CfgGood \cup {"variant_option_fields"} |->
        IF k = "keys" THEN CfgGood.keys \cup {"variant_option_fields"}
        ELSE IF k = "variant_option_fields"
             THEN <<"Voltage", "Power HP", "Weight lbs", "List Price">>
        ELSE CfgGood[k]]

\* A weight threshold other than cli.py's 150
CfgThreshold == [CfgGood EXCEPT !.weight_threshold = 5]

Configs == {CfgGood, CfgDiv, CfgNoSeoTitle, CfgBadSeo, CfgCli, CfgOptions, CfgThreshold}

\* The rows tables are made of: model, voltage, power, weight, price, part number
T_AB == <<"A", " ", "B">>
T_AsB == <<"A", "/", "B">>
RowGood == <<T_AB, <<"1", "1", "5">>, <<"2">>, <<"1", "0">>, <<"1", "0", "0">>, <<"P", "1">> >>
\* blank power, heavy
RowNoPower == <<T_AB, <<"2", "3", "0">>, NaNCell, <<"2", "0", "0">>, <<"5", "0">>, <<"P", "2">> >>
\* a weight that is no number, a placeholder voltage
RowBadWeight == <<T_AB, <<"-">>, <<"2">>, <<"a", "b", "c">>, <<"5", "0">>, <<"P", "3">> >>
\* placeholder part number and price
RowNoSku == <<T_AB, <<"1", "1", "5">>, <<"2">>, <<"1", "0">>, <<"C", "F">>, <<"C", "F">> >>
\* placeholder price, no option value
RowNoPrice == <<T_AB, <<"-">>, NaNCell, <<"1", "0">>, <<"C", "F">>, <<"P", "5">> >>
\* another model with the same handle; placeholder weight
RowNoWeight == <<T_AsB, <<"1", "1", "5">>, <<"2">>, <<"C", "F">>, <<"1", "0", "0">>, <<"P", "6">> >>
\* no option value
RowSingle == <<T_AsB, <<"-">>, NaNCell, <<"1", "0">>, <<"5", "0">>, <<"P", "7">> >>
\* blank price
RowBlankPrice == <<T_AsB, <<"1", "1", "5">>, <<"2">>, <<"1", "0">>, NaNCell, <<"P", "8">> >>
\* blank price and blank part number
RowBlank == <<T_AsB, <<"1", "1", "5">>, <<"2">>, <<"1", "0">>, NaNCell, NaNCell>>
\* a price of white space, an em dash for the part number
RowDashes == <<T_AB, <<"1", "1", "5">>, <<"2">>, <<"1", "0">>, <<" ">>, <<EmDash>> >>
\* a second model with nothing amiss
RowOther == <<T_AsB, <<"2", "3", "0">>, <<"2">>, <<"1", "0">>, <<"5", "0">>, <<"P", "9">> >>

RowChoices ==
    {RowGood, RowNoPower, RowBadWeight, RowNoSku, RowNoPrice, RowNoWeight, RowSingle,
     RowBlankPrice, RowBlank, RowDashes, RowOther}

\* The header rows of the tables process_file is run on
CanonicalHeaders ==
    <<"Model", "Voltage", "Power HP", "Weight lbs", "List Price", "Article Number">>
DriftedHeaders ==
    <<"Model Number", "Voltage", "Power HP", "Weight lbs", "List Price", "Part Number">>
\* no weight column
LackingHeaders ==
    <<"Model", "Voltage", "Power HP", "Model Number", "List Price", "Article Number">>
HeaderChoices == {CanonicalHeaders, DriftedHeaders, LackingHeaders}

\* The runs: every configuration on the canonical table, the other header rows
\* under the complete configuration
RunChoices == ({CanonicalHeaders} \X Configs) \cup (HeaderChoices \X {CfgGood})

\* The rows of the runs under the other configurations and header rows: rows
\* that pass both filters, of two models, with and without option values
CoreRows == {RowGood, RowNoPower, RowBadWeight, RowSingle, RowOther}

\* The rows a run's table is made of: every row on the canonical table under
\* the complete configuration
RowsOf(run) == IF run = <<CanonicalHeaders, CfgGood>> THEN RowChoices ELSE CoreRows

SeqsUpTo(S, n) == UNION {[1..k -> S] : k \in 0..n}

-----------------------------------------------------------------------------
(* process_file as a state machine *)

NoFile ==
    [outdir |-> FALSE, name |-> "", columns |-> <<>>, records |-> <<>>, error_log |-> <<>>,
     logged |-> FALSE]
NoCall ==
    [pc |-> "idle", impl |-> "", expr |-> NoFormula, context |-> <<>>,
     result |-> [evaluated |-> FALSE, raised |-> FALSE, val |-> VNone, err |-> <<>>]]

\* The state before a run: the locals are empty
Fresh ==
    /\ column_map = <<>>
    /\ groups = <<>>
    /\ gi = 0
    /\ valid_rows = <<>>
    /\ vi = 0
    /\ rows = <<>>
    /\ src = <<>>
    /\ errors = <<>>
    /\ exc = NoExc
    /\ out_file = NoFile

Init ==
    /\ module \in {"processor", "processor_no_weight"}
    /\ mode \in {"full", "description-only"}
    /\ \E run \in RunChoices :
           /\ headers = run[1]
           /\ config = run[2]
           /\ table \in SeqsUpTo(RowsOf(run), MaxRows)
    /\ pc = "start"
    /\ ev = NoCall
    /\ Fresh

\* The column df.groupby is given: 'Model' in processor.py (line 101),
\* col_model in processor_no_weight.py (line 135)
GroupColumn(impl, cmap) == IF impl = "processor" THEN "Model" ELSE cmap["Model"]

\* Lines 78-101 / 113-135: resolve the columns, rename, group
Resolve ==
    /\ pc = "start"
    /\ LET grouped(cmap, renamed) ==
               IF ~HasColumn(renamed, GroupColumn(module, cmap))
               THEN /\ pc' = "raised"
                    /\ exc' = [type |-> "KeyError", text |-> <<GroupColumn(module, cmap)>>]
                    /\ headers' = renamed
                    /\ column_map' = cmap
                    /\ UNCHANGED <<groups, gi>>
               ELSE /\ headers' = renamed
                    /\ column_map' = cmap
                    /\ groups' = GroupKeys(table, renamed, GroupColumn(module, cmap))
                    /\ gi' = 1
                    /\ pc' = IF groups' = <<>> THEN "finish" ELSE "group"
                    /\ exc' = exc
           resolved(r) ==
               IF r.exc # NoExc
               THEN /\ pc' = "raised"
                    /\ exc' = r.exc
                    /\ UNCHANGED <<headers, column_map, groups, gi>>
               ELSE grouped(r.mapping, Renamed(headers, r.mapping))
       IN  resolved(fuzzy_match_columns(headers))
    /\ UNCHANGED <<module, mode, table, config, valid_rows, vi, rows, src, errors, out_file, ev>>

\* The validity filter of one group (lines 102-115 / 136-155); valid_rows
\* holds the rows' positions in the table
FilterGroup ==
    /\ pc = "group"
    /\ LET filtered(valid) ==
               IF valid = <<>>
               THEN /\ valid_rows' = <<>>
                    /\ vi' = 0
                    /\ gi' = IF gi < Len(groups) THEN gi + 1 ELSE gi
                    /\ pc' = IF gi < Len(groups) THEN "group" ELSE "finish"
               ELSE /\ valid_rows' = valid
                    /\ vi' = 1
                    /\ gi' = gi
                    /\ pc' = "row"
       IN  filtered(ValidRows(module, table, headers, column_map,
                              GroupRows(table, headers, GroupColumn(module, column_map),
                                        groups[gi])))
    /\ UNCHANGED <<module, mode, headers, table, config, column_map, groups, rows, src,
                   errors, exc, out_file, ev>>

\* One pass of the loop over valid_rows (lines 118-198 / 158-284)
EmitRow ==
    /\ pc = "row"
    /\ LET passed(r) ==
               /\ IF r.kind = "raise"
                  THEN /\ pc' = "raised"
                       /\ exc' = r.exc
                       /\ UNCHANGED <<vi, gi>>
                  ELSE /\ exc' = exc
                       /\ vi' = IF vi < Len(valid_rows) THEN vi + 1 ELSE vi
                       /\ gi' = IF vi >= Len(valid_rows) /\ gi < Len(groups) THEN gi + 1
                                ELSE gi
                       /\ pc' = IF vi < Len(valid_rows) THEN "row"
                                ELSE IF gi < Len(groups) THEN "group" ELSE "finish"
               /\ rows' = IF r.kind = "append" THEN Append(rows, r.record) ELSE rows
               /\ src' = IF r.kind = "append"
                         THEN Append(src, [row |-> valid_rows[vi], group |-> gi, i |-> vi - 1])
                         ELSE src
       IN  passed(ProcessRow(module, vi - 1, groups[gi], table[valid_rows[vi]], headers,
                             column_map, config, mode))
    /\ UNCHANGED <<module, mode, headers, table, config, column_map, groups, valid_rows,
                   errors, out_file, ev>>

\* pd.DataFrame(rows, columns=columns): a record's missing column is NaN
Frame(records, columns) ==
    [k \in 1..Len(records) |->
        [c \in Range(columns) |-> IF c \in DOMAIN records[k] THEN records[k][c] ELSE VNan]]

\* The export without the test of rows: the file is written whatever rows holds
FinishUnchecked ==
    /\ pc = "finish"
    /\ pc' = "done"
    /\ exc' = exc
    /\ out_file' =
          [outdir |-> TRUE,
           name |-> IF mode = "full" THEN "shopify_import" ELSE "shopify_descriptions",
           columns |-> IF mode = "full" THEN SHOPIFY_HEADERS(module)
                       ELSE <<"Handle", "Body (HTML)">>,
           records |-> Frame(rows, IF mode = "full" THEN SHOPIFY_HEADERS(module)
                                   ELSE <<"Handle", "Body (HTML)">>),
           error_log |-> errors,
           logged |-> errors # <<>>]
    /\ UNCHANGED <<module, mode, headers, table, config, column_map, groups, gi, valid_rows,
                   vi, rows, src, errors, ev>>

\* Lines 201-220 / 286-306: nothing to export, or the exports directory, the
\* output file and the error log
Finish ==
    /\ pc = "finish"
    /\ IF rows = <<>>
       THEN /\ pc' = "raised"
            /\ exc' = [type |-> "Exception", text |-> <<"No valid rows to export.">>]
            /\ out_file' = out_file
       ELSE LET columns ==
                    IF mode = "full" THEN SHOPIFY_HEADERS(module)
                    ELSE <<"Handle", "Body (HTML)">>
            IN  /\ pc' = "done"
                /\ exc' = exc
                /\ out_file' =
                      [outdir |-> TRUE,
                       name |-> IF mode = "full" THEN "shopify_import" ELSE "shopify_descriptions",
                       columns |-> columns,
                       records |-> Frame(rows, columns),
                       error_log |-> errors,
                       logged |-> errors # <<>>]
    /\ UNCHANGED <<module, mode, headers, table, config, column_map, groups, gi, valid_rows,
                   vi, rows, src, errors, ev>>

Next == Resolve \/ FilterGroup \/ EmitRow \/ Finish

Spec == Init /\ [][Next]_vars

-----------------------------------------------------------------------------
(* fuzzy_match_columns on its own, over every header row of HeaderNames *)

\* The header rows pandas hands over: up to n names, none twice
RECURSIVE Arrangements(_, _)
Arrangements(S, n) ==
    IF n = 0 THEN {<<>>}
    ELSE {<<>>} \cup UNION {{<<h>> \o t : t \in Arrangements(S \ {h}, n - 1)} : h \in S}

HeaderRows(n) == Arrangements(HeaderNames, n)

InitResolve ==
    /\ headers \in HeaderRows(MaxHeaders)
    /\ pc = "resolve"
    /\ module = "processor"
    /\ mode = "full"
    /\ table = <<>>
    /\ config = CfgGood
    /\ ev = NoCall
    /\ Fresh

\* column_map = fuzzy_match_columns(df), or the exception it raises
ResolveColumns ==
    /\ pc = "resolve"
    /\ LET resolved(r) ==
               /\ column_map' = r.mapping
               /\ exc' = r.exc
               /\ pc' = IF r.exc = NoExc THEN "resolved" ELSE "raised"
       IN  resolved(fuzzy_match_columns(headers))
    /\ UNCHANGED <<module, mode, headers, table, config, groups, gi, valid_rows, vi, rows,
                   src, errors, out_file, ev>>

NextResolve == ResolveColumns

SpecResolve == InitResolve /\ [][NextResolve]_vars

-----------------------------------------------------------------------------
(* safe_eval on its own, over formulas of every construct *)

\* Formulas with the constructs a formula language leaves out
X_attr == Formula("list_price.real", Attribute(Name("list_price"), "real"))
X_sub == Formula("list_price[0]", Subscript(Name("list_price"), NumC(0)))
X_walrus == Formula("(x := list_price)", NamedExpr("x", Name("list_price")))
X_ifexp == Formula("1 if list_price else 2", IfExp(Name("list_price"), NumC(1), NumC(2)))
X_lambda == Formula("lambda: list_price", Lambda(Name("list_price")))
X_compare == Formula("list_price < 1", Compare(Name("list_price"), "Lt", NumC(1)))
X_import == Formula("__import__('os')", Call(Name("__import__"), <<StrC("os")>>))
X_open == Formula("open('formulas.json')", Call(Name("open"), <<StrC("formulas.json")>>))
\* a statement is no expression: ast.parse(mode='eval') raises
X_import_stmt == BadFormula("import os", "SyntaxError")
X_def == BadFormula("def f(): pass", "SyntaxError")
X_assign == BadFormula("x = 1", "SyntaxError")

FormulaChoices ==
    {F_price, F_cost, F_div, F_round_price, F_round_grams, F_seo_title,
     F_seo_description_cli, NoFormula, X_attr, X_sub, X_walrus, X_ifexp, X_lambda,
     X_compare, X_import, X_open, X_import_stmt, X_def, X_assign}

ContextChoices ==
    {[n \in {"list_price"} |-> VFlt(100)],
     [n \in {"list_price"} |-> VNan],
     [n \in {"list_price", "weight"} |-> VFlt(0)],
     [n \in {"collection", "model", "vendor", "voltage"} |-> VStr(<<"x">>)]}

InitEval ==
    /\ ev \in [pc : {"call"}, impl : {"processor", "processor_no_weight", "description"},
               expr : FormulaChoices, context : ContextChoices, result : {NoCall.result}]
    /\ pc = "idle"
    /\ module = ""
    /\ mode = ""
    /\ headers = <<>>
    /\ table = <<>>
    /\ config = CfgGood
    /\ Fresh

\* One call of safe_eval(expr, context)
CallSafeEval ==
    /\ ev.pc = "call"
    /\ ev' = [ev EXCEPT !.pc = "returned",
                        !.result = safe_eval(ev.impl, ev.expr, ev.context)]
    /\ UNCHANGED <<module, mode, headers, table, config, pc, column_map, groups, gi,
                   valid_rows, vi, rows, src, errors, exc, out_file>>

NextEval == CallSafeEval

SpecEval == InitEval /\ [][NextEval]_vars

-----------------------------------------------------------------------------
(* process_file on one-row tables, over model names of every shape *)

\* The longest model name drawn
MaxName == 4

\* The characters sanitize_handle treats differently, and one of each case
NameChars == {"A", "b", " ", "/", "(", ")"}

ModelABC ==
    <<"M", "o", "d", "e", "l", " ", "A", "B", "C", " ", "(", "2", "H", "P", ")">>

\* Model names: every text of up to len characters with a character that is no
\* white space, and the documented example
NameChoices(len) ==
    {n \in SeqsUpTo(NameChars, len) : \E i \in 1..Len(n) : n[i] # " "} \cup {ModelABC}

InitHandle ==
    /\ module \in {"processor", "processor_no_weight"}
    /\ mode \in {"full", "description-only"}
    /\ headers = CanonicalHeaders
    /\ config = CfgGood
    /\ \E n \in NameChoices(MaxName) :
           table = << <<n, <<"1", "1", "5">>, <<"2">>, <<"1", "0">>, <<"1", "0", "0">>,
                        <<"P", "1">> >> >>
    /\ pc = "start"
    /\ ev = NoCall
    /\ Fresh

SpecHandle == InitHandle /\ [][Next]_vars

-----------------------------------------------------------------------------
(* Properties *)

\* The fields a product carries once
SharedFields ==
    {"Title", "Vendor", "Type", "Tags", "Image Src", "SEO Title", "SEO Description"}

\* C1: in full mode only the record built from a group's first valid row carries
\* Title, Vendor, Type, Tags, Image Src, SEO Title and SEO Description; every
\* other record of the group has the empty string in all seven.
C1_SharedFieldsOnPrimaryOnly ==
    mode = "full" =>
        \A k \in 1..Len(rows) :
            src[k].i # 0 => \A f \in SharedFields : rows[k][f] = EmptyStr

\* Empty or a placeholder, as the specification reads a cell
IsPlaceholder(c) == IsNa(c) \/ Strip(c) \in Placeholders

\* C2: the validity filter drops a row of the group if and only if its part
\* number or its list price is empty or one of the placeholders; every other
\* row of the group is a valid row.
C2_DroppedIffPlaceholder ==
    pc = "row" =>
        \A r \in 1..Len(table) :
            Cell(table[r], headers, GroupColumn(module, column_map)) = groups[gi] =>
                (r \notin Range(valid_rows)
                    <=> \/ IsPlaceholder(Cell(table[r], headers, column_map["Article Number"]))
                        \/ IsPlaceholder(Cell(table[r], headers, column_map["List Price"])))

\* The valid rows of the current group the loop is done with
Handled(j) ==
    IF pc = "row" \/ (pc = "raised" /\ exc.text # <<"No valid rows to export.">>)
    THEN j < vi
    ELSE TRUE

C4_RowFailureIsolated ==
    /\ pc = "raised" =>
           ~(exc.type = "ValueError" /\ exc.text # <<>> /\ exc.text[1] = "Invalid formula: ")
    /\ pc = "done" /\ module = "processor" =>
           \A j \in 1..Len(valid_rows) :
               (\E k \in 1..Len(src) : src[k].row = valid_rows[j]) \/ errors # <<>>

\* The functions a formula may call
SafeFunctions == {"round"}

\* The constructs the specification rules out, in a parsed formula: attribute access, indexing,
\* assignment, control flow, a function definition, or a call of a function
\* that is not on the allow-list.  (An import, like every statement, does not
\* parse as an expression.)
IsForbidden(n) ==
    \/ n.node \in {"Attribute", "Subscript", "NamedExpr", "IfExp", "Lambda"}
    \/ n.node = "Call" /\ ~(n.kids[1].node = "Name" /\ n.kids[1].id \in SafeFunctions)

\* C5: safe_eval never evaluates an expression whose syntax tree holds a
\* forbidden construct or a call of a function off the allow-list; it rejects
\* every such expression before evaluation.
C5_ForbiddenNeverEvaluated ==
    ev.pc = "returned" /\ ev.expr.parse = "ok"
        /\ (\E i \in 1..Len(Walk(<<ev.expr.tree>>)) : IsForbidden(Walk(<<ev.expr.tree>>)[i]))
        => ~ev.result.evaluated

\* C6: a failure of a description or SEO text formula never raises out of the
\* pipeline: when a processor_no_weight run ends on a formula's exception, it
\* is the pricing or the cost formula (the strict ones) that failed on the row.
C6_TextFormulaNeverRaises ==
    module = "processor_no_weight" /\ pc = "raised"
        /\ exc.type \in {"ValueError", "AttributeError"} =>
            \/ no_weight_safe_eval(config.pricing_formula,
                   [n \in {"list_price"} |->
                       ListPrice(table[valid_rows[vi]], headers, column_map)]).raised
            \/ no_weight_safe_eval(config.cost_formula,
                   [n \in {"list_price"} |->
                       ListPrice(table[valid_rows[vi]], headers, column_map)]).raised

\* C7: records of two different product groups never carry the same Handle.
C7_HandlesDistinctAcrossGroups ==
    \A k1, k2 \in 1..Len(rows) :
        src[k1].group # src[k2].group => rows[k1]["Handle"] # rows[k2]["Handle"]

\* C8: a canonical field with an alias that is exactly one of the table's
\* headers is mapped to such an exactly matching header, whatever the other
\* headers and their order.
C8_ExactAliasSelected ==
    pc = "resolved" =>
        \A key \in Keys :
            Range(AliasesOf(key)) \cap Range(headers) # {} =>
                column_map[key] \in Range(AliasesOf(key)) \cap Range(headers)

\* A header that qualifies for a canonical field: it scores at least 70 against
\* one of the field's aliases
Qualifies(h, key) ==
    \E a \in 1..Len(AliasesOf(key)) : token_set_ratio(h, AliasesOf(key)[a]) >= 70

\* The fields the error message names
NamedMissing == {exc.text[i] : i \in 2..Len(exc.text)}

\* C9 as the specification words it: fuzzy_match_columns returns a mapping of every canonical field
\* to a header scoring at least 70 against one of its aliases, or raises an
\* error naming every field without such a header together with the full list
\* of the available headers; it never returns a partial mapping.
C9_CompleteOrErrorListingHeaders ==
    /\ pc = "resolved" =>
           /\ DOMAIN column_map = Keys
           /\ \A key \in Keys :
                  column_map[key] \in Range(headers) /\ Qualifies(column_map[key], key)
    /\ pc = "raised" =>
           /\ column_map = <<>>
           /\ \A key \in Keys :
                  (\A i \in 1..Len(headers) : ~Qualifies(headers[i], key)) => key \in NamedMissing
           /\ \E at \in 1..(Len(exc.text) - Len(headers) + 1) :
                  SubSeq(exc.text, at, at + Len(headers) - 1) = headers

\* C9, amended: fuzzy_match_columns returns a mapping of every canonical field
\* to a header scoring at least 70 against one of its aliases, or raises an
\* error whose message names exactly the fields without such a header (and no
\* headers); it never returns a partial mapping.
C9_CompleteOrErrorNamingMissing ==
    /\ pc = "resolved" =>
           /\ exc = NoExc
           /\ DOMAIN column_map = Keys
           /\ \A key \in Keys :
                  column_map[key] \in Range(headers) /\ Qualifies(column_map[key], key)
    /\ pc = "raised" =>
           /\ column_map = <<>>
           /\ exc.type = "Exception"
           /\ exc.text[1] = "Missing required columns: "
           /\ NamedMissing =
                  {key \in Keys : \A i \in 1..Len(headers) : ~Qualifies(headers[i], key)}
           /\ NamedMissing # {}

\* A table of several headers that lacks one field: the error names it alone
C9_Witness ==
    /\ pc = "raised"
    /\ Len(headers) >= 5
    /\ Len(exc.text) = 2

\* The record full mode builds from the row the k-th record was built from
FullModeRow(k) ==
    ProcessRow(module, src[k].i, groups[src[k].group], table[src[k].row], headers,
               column_map, config, "full")

\* C10: what a description-only run exports is the projection onto Handle and
\* Body (HTML) of what full mode builds from the same table and configuration:
\* the same rows in the same order, exactly those two fields, with the values
\* of the full-mode records.
C10_DescriptionOnlyIsProjection ==
    pc = "done" /\ mode = "description-only" =>
        /\ out_file.columns = <<"Handle", "Body (HTML)">>
        /\ \A k \in 1..Len(out_file.records) :
               /\ FullModeRow(k).kind = "append"
               /\ out_file.records[k] =
                      [f \in {"Handle", "Body (HTML)"} |-> FullModeRow(k).record[f]]

\* The table rows of the group with index g
MembersOf(g) ==
    GroupRows(table, headers, GroupColumn(module, column_map), groups[g])

\* enumerate's index of table row r, counted within the row's own group only
OwnIndex(r, g) ==
    Cardinality({q \in Range(MembersOf(g)) :
                    q < r /\ RowValid(module, table[q], headers, column_map)})

\* A cell whose text, trimmed, is one of "", "-", the em dash, "N/A", "CF"
IsPlaceholderText(c) ==
    ~IsNa(c) /\ Strip(c) \in {<<>>, <<"-">>, <<EmDash>>, <<"N", "/", "A">>, <<"C", "F">>}

\* The groups whose every row has a placeholder part number and a placeholder price
PlaceholderGroups ==
    {g \in 1..Len(groups) :
        \A r \in Range(MembersOf(g)) :
            /\ IsPlaceholderText(Cell(table[r], headers, column_map["Article Number"]))
            /\ IsPlaceholderText(Cell(table[r], headers, column_map["List Price"]))}

IsNumeric(c) == ~IsNa(c) /\ PyFloat(c).ok /\ ~IsNan(PyFloat(c).val)

\* A group whose rows are all valid and processable: part number and price no
\* placeholder, weight and price numbers, the first option value not blank, and
\* no formula failing on any of its rows
Processable(g) ==
    \A r \in Range(MembersOf(g)) :
        /\ ~IsPlaceholder(Cell(table[r], headers, column_map["Article Number"]))
        /\ ~IsPlaceholder(Cell(table[r], headers, column_map["List Price"]))
        /\ IsNumeric(Cell(table[r], headers, column_map["Weight"]))
        /\ IsNumeric(Cell(table[r], headers, column_map["List Price"]))
        /\ OptionValue(table[r], headers, OptionFields(config)[1]) # <<>>
        /\ ProcessRow(module, OwnIndex(r, g), groups[g], table[r], headers, column_map,
                      config, mode).kind # "raise"

\* The table rows the records of group g were built from, in the records' order
EmittedOf(g) ==
    LET of_g == SelectSeq(src, LAMBDA e : e.group = g)
    IN  [k \in 1..Len(of_g) |-> of_g[k].row]

\* C12: when process_file has ended, a group whose rows are all valid and
\* processable has exactly one record per row, in the rows' order in the table.
C12_OneRecordPerRowInOrder ==
    pc \in {"done", "raised"} =>
        \A g \in 1..Len(groups) : Processable(g) => EmittedOf(g) = MembersOf(g)

\* The cell of record k's row under the o-th configured option field
OptionCell(k, o) == CellGet(table[src[k].row], headers, OptionFields(config)[o], <<>>)

\* All configured option values of record k's row are blank
AllOptionsBlank(k) ==
    \A o \in 1..Len(OptionFields(config)) : IsPlaceholder(OptionCell(k, o))

\* C13: in processor_no_weight.py a record's six option fields are empty when
\* all configured option values of its row are blank; otherwise slot K of the
\* first three holds the K-th configured field's name and the row's value for
\* it, the empty string for a placeholder, and a slot beyond the configured
\* fields is empty.
C13_OptionFieldsOfRecord ==
    module = "processor_no_weight" =>
        \A k \in 1..Len(rows) : \A slot \in 1..3 :
            /\ rows[k]["Option" \o ToString(slot) \o " Name"] =
                   IF AllOptionsBlank(k) \/ slot > Len(OptionFields(config)) THEN EmptyStr
                   ELSE VStr(<<OptionFields(config)[slot]>>)
            /\ rows[k]["Option" \o ToString(slot) \o " Value"] =
                   IF \/ AllOptionsBlank(k)
                      \/ slot > Len(OptionFields(config))
                      \/ IsPlaceholder(OptionCell(k, slot))
                   THEN EmptyStr
                   ELSE VStr(OptionCell(k, slot))

\* A finished run with a record without options and a record whose second
\* option has its name and no value
C13_Witness ==
    /\ module = "processor_no_weight"
    /\ pc = "done"
    /\ \E k \in 1..Len(rows) : AllOptionsBlank(k) /\ rows[k]["Option1 Name"] = EmptyStr
    /\ \E k \in 1..Len(rows) :
           /\ rows[k]["Option1 Value"] # EmptyStr
           /\ rows[k]["Option2 Name"] # EmptyStr
           /\ rows[k]["Option2 Value"] = EmptyStr

\* C14: when process_file ends without a record built, it has raised an error
\* and written nothing: no exports directory, no output file, no error log.
C14_NothingWrittenWithoutRows ==
    pc \in {"done", "raised"} /\ rows = <<>> =>
        /\ pc = "raised"
        /\ exc # NoExc
        /\ ~out_file.outdir
        /\ out_file.name = ""
        /\ ~out_file.logged

\* A run over a table with rows, none of which came through the filter and the loop
C14_Witness ==
    /\ pc = "raised"
    /\ exc.text = <<"No valid rows to export.">>
    /\ table # <<>>
    /\ groups # <<>>
    /\ ~out_file.outdir

\* The handle of a model name as documented: trimmed, lowercased, parentheses
\* removed, every space and slash a hyphen
DocumentedHandle(name) ==
    LET kept == SelectSeq(Lower(Strip(name)), LAMBDA c : c \notin {"(", ")"})
    IN  [i \in 1..Len(kept) |-> IF kept[i] \in {" ", "/"} THEN "-" ELSE kept[i]]

\* C15: every record carries the handle of its group's model name, which is the
\* name trimmed and lowercased, its spaces and slashes hyphens, its parentheses
\* removed; it has no uppercase letter, space, slash or parenthesis, and
\* "Model ABC (2HP)" gives "model-abc-2hp".
C15_HandleOfModelName ==
    \A k \in 1..Len(rows) :
        /\ rows[k]["Handle"] = VStr(DocumentedHandle(groups[src[k].group]))
        /\ \A i \in 1..Len(rows[k]["Handle"].str) :
               rows[k]["Handle"].str[i] \notin DOMAIN LowerOf \cup {" ", "/", "(", ")"}
        /\ groups[src[k].group] = ModelABC =>
               rows[k]["Handle"].str =
                   <<"m", "o", "d", "e", "l", "-", "a", "b", "c", "-", "2", "h", "p">>

\* The documented example, exported
C15_Witness ==
    /\ pc = "done"
    /\ groups = <<ModelABC>>
    /\ Len(out_file.records) = 1
    /\ out_file.records[1]["Handle"].str =
           <<"m", "o", "d", "e", "l", "-", "a", "b", "c", "-", "2", "h", "p">>

\* C16: in full mode every record built has every field of SHOPIFY_HEADERS, and
\* no field of an exported record is null.
C16_EveryHeaderInRecord ==
    mode = "full" =>
        /\ \A k \in 1..Len(rows) :
               \A f \in Range(SHOPIFY_HEADERS(module)) : f \in DOMAIN rows[k]
        /\ \A k \in 1..Len(out_file.records) :
               \A f \in Range(SHOPIFY_HEADERS(module)) : out_file.records[k][f] # VNan

\* The weight of record k's row, read as a number, exceeds the configured threshold
OverThreshold(k) ==
    LET c == Cell(table[src[k].row], headers, column_map["Weight"])
    IN  IsNumeric(c) /\ NumOf(PyFloat(c).val) > config.weight_threshold

\* C17: a record's description holds the shipping notice if and only if the
\* row's weight, read as a number, is greater than the configured
\* weight_threshold, in processor.py (build_description) and in
\* processor_no_weight.py (generate_description) alike.
C17_NoticeIffOverThreshold ==
    \A k \in 1..Len(rows) :
        rows[k]["Body (HTML)"] # EmptyStr =>
            (ShippingNote \in Range(rows[k]["Body (HTML)"].str) <=> OverThreshold(k))

\* Record k carries the product-level fields
CarriesProductFields(k) == rows[k]["Title"] # EmptyStr /\ rows[k]["Image Src"] # EmptyStr

\* C18: in full mode the first record built for a group carries the
\* product-level fields (Title and Image Src not empty) and no later record of
\* the group does, also when the group's first valid row was passed over.
C18_FirstRecordCarriesProductFields ==
    mode = "full" =>
        \A k \in 1..Len(rows) :
            CarriesProductFields(k) <=> \A j \in 1..(k - 1) : src[j].group # src[k].group

====
